---- MODULE Spec2Model ----
(***************************************************************************)
(* Front-end of the longevity clinical-intervention application: the HTTP  *)
(* client, the resource access modules (services/api.ts, services/auth.ts) *)
(* and the view components that consume them.                              *)
(*                                                                         *)
(* JavaScript is single threaded: every synchronous run of a handler (from *)
(* its start to its first await, and from the settlement of the awaited    *)
(* promise to the end of the handler) is one atomic action.                *)
(***************************************************************************)
EXTENDS Integers, Sequences, FiniteSets, Bags, TLC

VARIABLES
    page,       \* the mounted view component, "none" when no view is mounted
    view,       \* the useState cells of the mounted instance
    net,        \* HTTP requests in flight (a bag), each with the handler run awaiting it
    loads,      \* Promise.all joins of InterventionDetail.loadData still pending
    nLoads,     \* number of loadData runs of InterventionDetail so far
    storage,    \* window.localStorage
    navLog,     \* targets of the navigate() calls, in order
    last        \* what the most recent handler run or direct call did

vars == <<page, view, net, loads, nLoads, storage, navLog, last>>

-----------------------------------------------------------------------------
(* Bounds of the model *)

MaxInFlight == 4    \* requests in flight at one time
MaxLoads == 2       \* loadData runs of InterventionDetail in one behaviour
MaxLimit == 11      \* limits 0..MaxLimit passed to getTopInterventions
MaxId == 2          \* intervention ids 1..MaxId

-----------------------------------------------------------------------------
(* Values *)

None == [none |-> TRUE]                 \* null / undefined / absent
Some(v) == [none |-> FALSE, v |-> v]

Ids == 1..MaxId
Categories == {"nutrition", "exercise", "sleep", "supplement", "medical"}
Tokens == {"t1", "t2"}
NoHeaders == [h \in {} |-> ""]

-----------------------------------------------------------------------------
(* services/api.ts: the shared client *)

API_BASE == "/api/v1"

api == [bound |-> TRUE, baseURL |-> API_BASE, timeout |-> 10000]

\* The identifiers bound at module scope in services/api.ts and in
\* services/auth.ts.  auth.ts imports axios and declares API_BASE, and neither
\* imports nor creates a client named api.
ApiModuleBindings == {"axios", "API_BASE", "api"}
AuthModuleBindings == {"axios", "API_BASE"}

\* What the identifier `api` denotes inside a module with the given bindings.
Unbound == [bound |-> FALSE]
Lookup_api(bindings) == IF "api" \in bindings THEN api ELSE Unbound

\* A call client.verb(url, ...).  Evaluating an unbound identifier throws a
\* ReferenceError before any request is built.
Throw(name) == [kind |-> "throw", error |-> [name |-> name, response |-> None]]
HttpCall(client, method, url, params, body, headers) ==
    IF client.bound
    THEN [kind |-> "request",
          req |-> [baseURL |-> client.baseURL, timeout |-> client.timeout,
                   method |-> method, url |-> url, params |-> params,
                   body |-> body, headers |-> headers]]
    ELSE Throw("ReferenceError")

-----------------------------------------------------------------------------
(* services/api.ts: interventionsApi, evidenceApi, recommendationsApi.      *)
(* Every function is one call on the identifier api of its own module.      *)

ApiClient == Lookup_api(ApiModuleBindings)

\* The params object passed as the request config: axios reads no params.
interventionsApi_list_AsConfig(params) ==
    HttpCall(ApiClient, "GET", "/interventions", None, None, NoHeaders)

interventionsApi_list(params) ==
    HttpCall(ApiClient, "GET", "/interventions", params, None, NoHeaders)
interventionsApi_get(id) ==
    HttpCall(ApiClient, "GET", "/interventions/" \o ToString(id), None, None, NoHeaders)
interventionsApi_create(data) ==
    HttpCall(ApiClient, "POST", "/interventions", None, Some(data), NoHeaders)
interventionsApi_update(id, data) ==
    HttpCall(ApiClient, "PUT", "/interventions/" \o ToString(id), None, Some(data), NoHeaders)
interventionsApi_delete(id) ==
    HttpCall(ApiClient, "DELETE", "/interventions/" \o ToString(id), None, None, NoHeaders)
interventionsApi_search(query) ==
    HttpCall(ApiClient, "GET", "/interventions/search/by-name?query=" \o query,
             None, None, NoHeaders)
interventionsApi_getByEvidenceLevel(level) ==
    HttpCall(ApiClient, "GET", "/interventions/by-evidence-level/" \o ToString(level),
             None, None, NoHeaders)

evidenceApi_list(interventionId, params) ==
    HttpCall(ApiClient, "GET", "/evidence/intervention/" \o ToString(interventionId),
             params, None, NoHeaders)
evidenceApi_get(id) ==
    HttpCall(ApiClient, "GET", "/evidence/" \o ToString(id), None, None, NoHeaders)
evidenceApi_create(data) ==
    HttpCall(ApiClient, "POST", "/evidence", None, Some(data), NoHeaders)
evidenceApi_getByQuality(minQuality) ==
    HttpCall(ApiClient, "GET", "/evidence/by-quality?min_quality=" \o ToString(minQuality),
             None, None, NoHeaders)
evidenceApi_getMetaAnalyses ==
    HttpCall(ApiClient, "GET", "/evidence/meta-analyses", None, None, NoHeaders)
evidenceApi_getRandomizedTrials ==
    HttpCall(ApiClient, "GET", "/evidence/randomized-trials", None, None, NoHeaders)

recommendationsApi_create(data) ==
    HttpCall(ApiClient, "POST", "/recommendations", None, Some(data), NoHeaders)
recommendationsApi_getUser(userId, params) ==
    HttpCall(ApiClient, "GET", "/recommendations/user/" \o userId, params, None, NoHeaders)
recommendationsApi_get(id) ==
    HttpCall(ApiClient, "GET", "/recommendations/" \o ToString(id), None, None, NoHeaders)

\* getTopInterventions: (limit = 10) => ...; the default applies when the
\* argument is absent.  arg is None or Some(n).
DefaultTopLimit == 10
\* A limit parameter that ignores the argument.
TopLimitParam_Ignored(arg) == DefaultTopLimit
TopLimitParam(arg) == IF arg.none THEN DefaultTopLimit ELSE arg.v
recommendationsApi_getTopInterventions(arg) ==
    HttpCall(ApiClient, "GET",
             "/recommendations/top-interventions?limit=" \o ToString(TopLimitParam(arg)),
             None, None, NoHeaders)

-----------------------------------------------------------------------------
(* services/auth.ts: authApi.  Every function is one call on the identifier *)
(* api of services/auth.ts.                                                 *)

AuthClient == Lookup_api(AuthModuleBindings)

Bearer(token) == [Authorization |-> "Bearer " \o token]

authApi_register(data) ==
    HttpCall(AuthClient, "POST", "/auth/register", None, Some(data), NoHeaders)
authApi_login(data) ==
    HttpCall(AuthClient, "POST", "/auth/login", None, Some(data), NoHeaders)
authApi_logout(refreshToken) ==
    HttpCall(AuthClient, "POST", "/auth/logout", None,
             Some([refresh_token |-> refreshToken]), NoHeaders)
authApi_refreshToken(refreshToken) ==
    HttpCall(AuthClient, "POST", "/auth/refresh", None,
             Some([refresh_token |-> refreshToken]), NoHeaders)
authApi_getCurrentUser(token) ==
    HttpCall(AuthClient, "GET", "/auth/me", None, None, Bearer(token))
authApi_updateCurrentUser(token, data) ==
    HttpCall(AuthClient, "PUT", "/auth/me", None, Some(data), Bearer(token))
authApi_createHealthProfile(token, data) ==
    HttpCall(AuthClient, "POST", "/auth/health-profile", None, Some(data), Bearer(token))
authApi_updateHealthProfile(token, data) ==
    HttpCall(AuthClient, "PUT", "/auth/health-profile", None, Some(data), Bearer(token))
authApi_getHealthProfile(token) ==
    HttpCall(AuthClient, "GET", "/auth/health-profile", None, None, Bearer(token))

-----------------------------------------------------------------------------
(* The server and the transport, as seen by the client: a request in flight *)
(* either resolves with a payload of the declared type or rejects with an   *)
(* error that carries the response body when there is one.                  *)

InterventionData(id) == [id |-> id, category |-> "sleep"]
EvidenceLists(id) == {<< >>, << [id |-> 1, intervention_id |-> id] >>}
InterventionLists == {<< >>, << InterventionData(1) >>}
TokenPairs == {[access_token |-> "t1", refresh_token |-> "t2", token_type |-> "bearer"]}

Payloads(fn, arg) ==
    CASE fn = "recommendationsApi.getTopInterventions" -> InterventionLists
      [] fn = "interventionsApi.list" -> InterventionLists
      [] fn = "interventionsApi.get" -> {InterventionData(arg)}
      [] fn = "evidenceApi.list" -> EvidenceLists(arg)
      [] fn = "authApi.login" -> TokenPairs
      [] OTHER -> {[id |-> 1]}

HttpErrors ==
    { [name |-> "AxiosError", response |-> None],
      [name |-> "AxiosError",
       response |-> Some([status |-> 401, data |-> Some([detail |-> Some("Incorrect username or password")])])],
      [name |-> "AxiosError",
       response |-> Some([status |-> 500, data |-> Some([detail |-> None])])],
      [name |-> "AxiosError", response |-> Some([status |-> 502, data |-> None])] }

Outcomes(fn, arg) ==
    {[ok |-> TRUE, data |-> d, error |-> None] : d \in Payloads(fn, arg)}
    \cup {[ok |-> FALSE, data |-> None, error |-> Some(e)] : e \in HttpErrors}

\* err.response?.data?.detail || fallback
ErrorDetail(err) ==
    IF err.response.none THEN None
    ELSE IF err.response.v.data.none THEN None
    ELSE err.response.v.data.v.detail
ErrorMessage(err, fallback) ==
    LET d == ErrorDetail(err) IN
    IF d.none THEN fallback ELSE IF d.v = "" THEN fallback ELSE d.v

-----------------------------------------------------------------------------
(* View state *)

NoView == [none |-> TRUE]
EmptyStorage == [access_token |-> None, refresh_token |-> None]

\* A request in flight: the resource function that made it, the id it asks
\* for (0 when it asks for none) and the handler run that awaits it.  live:
\* the instance of that handler is still the mounted one.  load: the
\* Promise.all join the request belongs to, 0 for none.
Entry(comp, fn, arg, load) ==
    [comp |-> comp, live |-> TRUE, fn |-> fn, arg |-> arg, load |-> load]

InFlight == BagCardinality(net)

\* What one handler run did: whether its instance was the mounted one, how
\* the awaited call settled, the error a form handler caught, the requests
\* the run handed to the client, whether it called console.error, and the
\* storage and navigation it started from.
Observed(op, comp, live, ok, err, reqs, logged) ==
    [op |-> op, comp |-> comp, live |-> live, ok |-> ok, err |-> err, reqs |-> reqs,
     logged |-> logged, storage0 |-> storage, nav0 |-> Len(navLog)]
Idle == [op |-> "idle", comp |-> "none", live |-> TRUE, ok |-> TRUE, err |-> None,
         reqs |-> << >>, logged |-> FALSE, storage0 |-> EmptyStorage, nav0 |-> 0]

\* Unmounting the mounted instance cancels nothing: its requests stay in
\* flight and its joins stay pending, owned by an instance that is gone.
Orphaned(e) == [e EXCEPT !.live = FALSE]
Orphan(S) == {Orphaned(e) : e \in S}
OrphanNet(B) == BagOfAll(Orphaned, B)

\* A state setter called by a continuation: React applies it to the mounted
\* instance and drops it for an instance that was unmounted.
SetState(live, v) == IF live THEN v ELSE view

Init ==
    /\ page = "none"
    /\ view = NoView
    /\ net = EmptyBag
    /\ loads = {}
    /\ nLoads = 0
    /\ storage = EmptyStorage
    /\ navLog = << >>
    /\ last = Idle

-----------------------------------------------------------------------------
(* components/Dashboard.tsx *)

DashboardTopLimit == 10

\* An initial state taken from a cache filled by an earlier mount.
DashboardInitial_Cached == [topInterventions |-> << InterventionData(1) >>, loading |-> TRUE]
DashboardInitial == [topInterventions |-> << >>, loading |-> TRUE]

\* loadTopInterventions up to its await, run on state v with n the requests
\* in flight.
DashboardLoadStart(v, n) ==
    LET r == recommendationsApi_getTopInterventions(Some(DashboardTopLimit)) IN
    /\ InFlight < MaxInFlight
    /\ view' = [v EXCEPT !.loading = TRUE]
    /\ net' = n (+) SetToBag({Entry("Dashboard", "recommendationsApi.getTopInterventions",
                                     0, 0)})
    /\ last' = Observed("start", "Dashboard", TRUE, TRUE, None, << r.req >>, FALSE)
    /\ UNCHANGED <<nLoads, storage, navLog>>

\* Mount: useState initial values, then the effect with [] dependencies.
DashboardMount ==
    /\ page' = "Dashboard"
    /\ loads' = Orphan(loads)
    /\ DashboardLoadStart(DashboardInitial, OrphanNet(net))

\* A refresh button that is never disabled.
DashboardRefresh_AlwaysEnabled ==
    /\ page = "Dashboard"
    /\ DashboardLoadStart(view, net)
    /\ UNCHANGED <<page, loads>>

\* The refresh button: onClick = loadTopInterventions, disabled = loading.
DashboardRefresh ==
    /\ page = "Dashboard"
    /\ ~view.loading
    /\ DashboardLoadStart(view, net)
    /\ UNCHANGED <<page, loads>>

\* A handler that resets loading in the try block instead of a finally block.
DashboardSettle_NoFinally(r, o) ==
    /\ view' = SetState(r.live,
                 [view EXCEPT !.topInterventions = IF o.ok THEN o.data ELSE @,
                              !.loading = IF o.ok THEN FALSE ELSE @])
    /\ last' = Observed("settle", r.comp, r.live, o.ok, None, << >>, ~o.ok)
    /\ UNCHANGED <<loads, storage, navLog>>

\* loadTopInterventions from the settlement of the awaited call to its end.
DashboardSettle(r, o) ==
    /\ view' = SetState(r.live,
                 [view EXCEPT !.topInterventions = IF o.ok THEN o.data ELSE @,
                              !.loading = FALSE])
    /\ last' = Observed("settle", r.comp, r.live, o.ok, None, << >>, ~o.ok)
    /\ UNCHANGED <<loads, storage, navLog>>

-----------------------------------------------------------------------------
(* components/InterventionList.tsx *)

Filters == {"all"} \cup Categories

InterventionListInitial == [interventions |-> << >>, loading |-> FALSE, filter |-> "all"]

InterventionListMount ==
    /\ page' = "InterventionList"
    /\ view' = InterventionListInitial
    /\ net' = OrphanNet(net)
    /\ loads' = Orphan(loads)
    /\ last' = Idle
    /\ UNCHANGED <<nLoads, storage, navLog>>

\* The select: onChange = setFilter.
InterventionListSetFilter ==
    \E f \in Filters :
        /\ page = "InterventionList"
        /\ f # view.filter
        /\ view' = [view EXCEPT !.filter = f]
        /\ last' = Idle
        /\ UNCHANGED <<page, net, loads, nLoads, storage, navLog>>

ListParams(filter) == IF filter # "all" THEN [category |-> filter] ELSE None

\* The load button: onClick = loadInterventions, disabled = loading.
InterventionListLoad ==
    LET r == interventionsApi_list(ListParams(view.filter)) IN
    /\ page = "InterventionList"
    /\ ~view.loading
    /\ InFlight < MaxInFlight
    /\ view' = [view EXCEPT !.loading = TRUE]
    /\ net' = net (+) SetToBag({Entry("InterventionList", "interventionsApi.list", 0, 0)})
    /\ last' = Observed("start", "InterventionList", TRUE, TRUE, None, << r.req >>, FALSE)
    /\ UNCHANGED <<page, loads, nLoads, storage, navLog>>

InterventionListSettle(r, o) ==
    /\ view' = SetState(r.live,
                 [view EXCEPT !.interventions = IF o.ok THEN o.data ELSE @,
                              !.loading = FALSE])
    /\ last' = Observed("settle", r.comp, r.live, o.ok, None, << >>, ~o.ok)
    /\ UNCHANGED <<loads, storage, navLog>>

-----------------------------------------------------------------------------
(* components/InterventionDetail.tsx: InterventionDetail *)

InterventionDetailInitial(id) ==
    [interventionId |-> id, intervention |-> None, evidence |-> << >>, loading |-> TRUE]

\* loadData up to its await, run on state v with n the requests in flight and
\* j the joins pending: both calls are made with the interventionId of the
\* render that ran the effect, and Promise.all joins them.  The join is named
\* by a number no request in flight carries.
FreshLoad ==
    CHOOSE k \in 1..MaxInFlight : \A e \in BagToSet(net) : e.load # k

DetailLoadStart(v, n, j) ==
    LET id == v.interventionId
        r1 == interventionsApi_get(id)
        r2 == evidenceApi_list(id, None)
        k == FreshLoad
    IN
    /\ InFlight + 2 <= MaxInFlight
    /\ nLoads < MaxLoads
    /\ nLoads' = nLoads + 1
    /\ view' = [v EXCEPT !.loading = TRUE]
    /\ net' = n (+) SetToBag(
          {Entry("InterventionDetail", "interventionsApi.get", id, k),
           Entry("InterventionDetail", "evidenceApi.list", id, k)})
    /\ loads' = j \cup {[load |-> k, live |-> TRUE, id |-> id,
                         iRes |-> None, eRes |-> None]}
    /\ last' = Observed("start", "InterventionDetail", TRUE, TRUE, None,
                        << r1.req, r2.req >>, FALSE)
    /\ UNCHANGED <<storage, navLog>>

\* Mount with a value of the interventionId prop: useState initial values,
\* then the effect.
InterventionDetailMount ==
    \E id \in Ids :
        /\ page' = "InterventionDetail"
        /\ DetailLoadStart(InterventionDetailInitial(id), OrphanNet(net), Orphan(loads))

\* The parent renders the mounted instance with another interventionId: the
\* effect's dependency changed, so the effect runs loadData again.
InterventionDetailSetId ==
    \E id \in Ids :
        /\ page = "InterventionDetail"
        /\ id # view.interventionId
        /\ DetailLoadStart([view EXCEPT !.interventionId = id], net, loads)
        /\ UNCHANGED page

\* A request of a loadData settles.  Promise.all rejects with the first
\* rejection and resolves when both calls have resolved; what settles after
\* the join has settled is dropped.
InterventionDetailSettle(r, o) ==
    IF \A L \in loads : L.load # r.load
    THEN /\ last' = Observed("dropped", r.comp, r.live, o.ok, None, << >>, FALSE)
         /\ UNCHANGED <<view, loads, storage, navLog>>
    ELSE
      LET L == CHOOSE L \in loads : L.load = r.load
          L2 == IF r.fn = "interventionsApi.get"
                THEN [L EXCEPT !.iRes = Some(o.data)]
                ELSE [L EXCEPT !.eRes = Some(o.data)]
      IN
      IF ~o.ok
      THEN /\ loads' = loads \ {L}
           /\ view' = SetState(r.live, [view EXCEPT !.loading = FALSE])
           /\ last' = Observed("settle", r.comp, r.live, FALSE, None, << >>, TRUE)
           /\ UNCHANGED <<storage, navLog>>
      ELSE IF L2.iRes.none \/ L2.eRes.none
      THEN /\ loads' = (loads \ {L}) \cup {L2}
           /\ last' = Observed("joined", r.comp, r.live, TRUE, None, << >>, FALSE)
           /\ UNCHANGED <<view, storage, navLog>>
      ELSE /\ loads' = loads \ {L}
           /\ view' = SetState(r.live, [view EXCEPT !.intervention = Some(L2.iRes.v),
                                                    !.evidence = L2.eRes.v,
                                                    !.loading = FALSE])
           /\ last' = Observed("settle", r.comp, r.live, TRUE, None, << >>, FALSE)
           /\ UNCHANGED <<storage, navLog>>

\* What the render of InterventionDetail returns.
DetailSections(v) ==
    IF v.loading THEN {"loading"}
    ELSE IF v.intervention.none THEN {"notFound"}
    ELSE {"intervention", "evidence"}

-----------------------------------------------------------------------------
(* components/InterventionDetail.tsx: LoginPage *)

Usernames == {"", "alice"}
Passwords == {"", "longenough"}

LoginFallback == "Login failed"

LoginInitial ==
    [formData |-> [username |-> "", password |-> ""], error |-> "", loading |-> FALSE]

LoginMount ==
    /\ page' = "LoginPage"
    /\ view' = LoginInitial
    /\ net' = OrphanNet(net)
    /\ loads' = Orphan(loads)
    /\ last' = Idle
    /\ UNCHANGED <<nLoads, storage, navLog>>

\* The inputs: onChange = setFormData({...formData, field: value}).
LoginChange ==
    \E u \in Usernames, p \in Passwords :
        /\ page = "LoginPage"
        /\ (u = view.formData.username) # (p = view.formData.password)
        /\ view' = [view EXCEPT !.formData = [username |-> u, password |-> p]]
        /\ last' = Idle
        /\ UNCHANGED <<page, net, loads, nLoads, storage, navLog>>

\* A catch block that sets no message.
LoginCatch_NoMessage(live, v, err) ==
    view' = SetState(live, [v EXCEPT !.loading = FALSE])

\* handleSubmit's catch block followed by its finally block, on state v.
LoginCatch(live, v, err) ==
    view' = SetState(live, [v EXCEPT !.error = ErrorMessage(err, LoginFallback),
                                     !.loading = FALSE])

\* handleSubmit from the settlement of authApi.login to its end.
LoginSettle(r, o) ==
    /\ IF o.ok
       THEN /\ storage' = [access_token |-> Some(o.data.access_token),
                           refresh_token |-> Some(o.data.refresh_token)]
            /\ navLog' = Append(navLog, "/")
            /\ view' = SetState(r.live, [view EXCEPT !.loading = FALSE])
       ELSE /\ LoginCatch(r.live, view, o.error.v)
            /\ UNCHANGED <<storage, navLog>>
    /\ last' = Observed("settle", r.comp, r.live, o.ok, o.error, << >>, FALSE)
    /\ UNCHANGED loads

\* The form: onSubmit = handleSubmit; the submit button is disabled while
\* loading.  A call that throws is caught by the same try block at once.
LoginSubmit ==
    LET r == authApi_login(view.formData)
        v == [view EXCEPT !.error = "", !.loading = TRUE]
    IN
    /\ page = "LoginPage"
    /\ ~view.loading
    /\ IF r.kind = "request"
       THEN /\ InFlight < MaxInFlight
            /\ view' = v
            /\ net' = net (+) SetToBag({Entry("LoginPage", "authApi.login", 0, 0)})
            /\ last' = Observed("start", "LoginPage", TRUE, TRUE, None, << r.req >>, FALSE)
       ELSE /\ LoginCatch(TRUE, v, r.error)
            /\ last' = Observed("settle", "LoginPage", TRUE, FALSE, Some(r.error), << >>, FALSE)
            /\ UNCHANGED net
    /\ UNCHANGED <<page, loads, nLoads, storage, navLog>>

-----------------------------------------------------------------------------
(* components/RegisterPage.tsx *)

MinPasswordLength == 8

RegisterMismatch == "The two passwords do not match"
RegisterTooShort == "The password must have at least 8 characters"
RegisterFallback == "Registration failed"

RegisterInitial ==
    [formData |-> [username |-> "", email |-> "", password |-> "", full_name |-> ""],
     confirmPassword |-> "", error |-> "", loading |-> FALSE]

RegisterMount ==
    /\ page' = "RegisterPage"
    /\ view' = RegisterInitial
    /\ net' = OrphanNet(net)
    /\ loads' = Orphan(loads)
    /\ last' = Idle
    /\ UNCHANGED <<nLoads, storage, navLog>>

\* The password inputs: onChange = setFormData({...formData, password}) and
\* setConfirmPassword.
\* Passwords of 0, 7 and 8 characters.
RegisterPasswords == {"", "1234567", "12345678"}

RegisterChange ==
    \E p \in RegisterPasswords, c \in RegisterPasswords :
        /\ page = "RegisterPage"
        /\ (p = view.formData.password) # (c = view.confirmPassword)
        /\ view' = [view EXCEPT !.formData.password = p, !.confirmPassword = c]
        /\ last' = Idle
        /\ UNCHANGED <<page, net, loads, nLoads, storage, navLog>>

\* handleSubmit's catch block followed by its finally block, on state v.
RegisterCatch(live, v, err) ==
    view' = SetState(live, [v EXCEPT !.error = ErrorMessage(err, RegisterFallback),
                                     !.loading = FALSE])

\* handleSubmit from the settlement of authApi.register to its end.
RegisterSettle(r, o) ==
    /\ IF o.ok
       THEN /\ navLog' = Append(navLog, "/login")
            /\ view' = SetState(r.live, [view EXCEPT !.loading = FALSE])
       ELSE /\ RegisterCatch(r.live, view, o.error.v)
            /\ UNCHANGED navLog
    /\ last' = Observed("settle", r.comp, r.live, o.ok, o.error, << >>, FALSE)
    /\ UNCHANGED <<loads, storage>>

\* A handler that checks the length before the confirmation.
RegisterSubmit_LengthFirst ==
    LET r == authApi_register(view.formData)
        v0 == [view EXCEPT !.error = ""]
        v == [v0 EXCEPT !.loading = TRUE]
    IN
    /\ page = "RegisterPage"
    /\ ~view.loading
    /\ IF Len(view.formData.password) < MinPasswordLength
       THEN /\ view' = [v0 EXCEPT !.error = RegisterTooShort]
            /\ last' = Observed("invalid", "RegisterPage", TRUE, FALSE, None, << >>, FALSE)
            /\ UNCHANGED net
       ELSE IF view.formData.password # view.confirmPassword
       THEN /\ view' = [v0 EXCEPT !.error = RegisterMismatch]
            /\ last' = Observed("invalid", "RegisterPage", TRUE, FALSE, None, << >>, FALSE)
            /\ UNCHANGED net
       ELSE IF r.kind = "request"
       THEN /\ InFlight < MaxInFlight
            /\ view' = v
            /\ net' = net (+) SetToBag({Entry("RegisterPage", "authApi.register", 0, 0)})
            /\ last' = Observed("start", "RegisterPage", TRUE, TRUE, None, << r.req >>, FALSE)
       ELSE /\ RegisterCatch(TRUE, v, r.error)
            /\ last' = Observed("settle", "RegisterPage", TRUE, FALSE, Some(r.error), << >>, FALSE)
            /\ UNCHANGED net
    /\ UNCHANGED <<page, loads, nLoads, storage, navLog>>

\* The form: onSubmit = handleSubmit; the submit button is disabled while
\* loading.  A call that throws is caught by the same try block at once.
RegisterSubmit ==
    LET r == authApi_register(view.formData)
        v0 == [view EXCEPT !.error = ""]
        v == [v0 EXCEPT !.loading = TRUE]
    IN
    /\ page = "RegisterPage"
    /\ ~view.loading
    /\ IF view.formData.password # view.confirmPassword
       THEN /\ view' = [v0 EXCEPT !.error = RegisterMismatch]
            /\ last' = Observed("invalid", "RegisterPage", TRUE, FALSE, None, << >>, FALSE)
            /\ UNCHANGED net
       ELSE IF Len(view.formData.password) < MinPasswordLength
       THEN /\ view' = [v0 EXCEPT !.error = RegisterTooShort]
            /\ last' = Observed("invalid", "RegisterPage", TRUE, FALSE, None, << >>, FALSE)
            /\ UNCHANGED net
       ELSE IF r.kind = "request"
       THEN /\ InFlight < MaxInFlight
            /\ view' = v
            /\ net' = net (+) SetToBag({Entry("RegisterPage", "authApi.register", 0, 0)})
            /\ last' = Observed("start", "RegisterPage", TRUE, TRUE, None, << r.req >>, FALSE)
       ELSE /\ RegisterCatch(TRUE, v, r.error)
            /\ last' = Observed("settle", "RegisterPage", TRUE, FALSE, Some(r.error), << >>, FALSE)
            /\ UNCHANGED net
    /\ UNCHANGED <<page, loads, nLoads, storage, navLog>>

-----------------------------------------------------------------------------
(* The event loop delivers the settlement of a request in flight and runs   *)
(* the continuation of the handler that awaits it.  Nothing cancels a       *)
(* request: it settles whether or not its component is still mounted.       *)

\* An event loop under a client that sends a rejected request again.
Deliver_Retry ==
    \E r \in BagToSet(net) :
        \E o \in Outcomes(r.fn, r.arg) :
            /\ net' = IF o.ok THEN net (-) SetToBag({r}) ELSE net
            /\ IF r.comp = "Dashboard" THEN DashboardSettle(r, o)
               ELSE IF r.comp = "InterventionList" THEN InterventionListSettle(r, o)
               ELSE IF r.comp = "InterventionDetail" THEN InterventionDetailSettle(r, o)
               ELSE IF r.comp = "LoginPage" THEN LoginSettle(r, o)
               ELSE RegisterSettle(r, o)
            /\ UNCHANGED <<page, nLoads>>

Deliver ==
    \E r \in BagToSet(net) :
        \E o \in Outcomes(r.fn, r.arg) :
            /\ net' = net (-) SetToBag({r})
            /\ IF r.comp = "Dashboard" THEN DashboardSettle(r, o)
               ELSE IF r.comp = "InterventionList" THEN InterventionListSettle(r, o)
               ELSE IF r.comp = "InterventionDetail" THEN InterventionDetailSettle(r, o)
               ELSE IF r.comp = "LoginPage" THEN LoginSettle(r, o)
               ELSE RegisterSettle(r, o)
            /\ UNCHANGED <<page, nLoads>>

\* The router replaces the mounted view by a page that is none of the views
\* above.
Unmount ==
    /\ page # "none"
    /\ page' = "none"
    /\ view' = NoView
    /\ net' = OrphanNet(net)
    /\ loads' = Orphan(loads)
    /\ last' = Idle
    /\ UNCHANGED <<nLoads, storage, navLog>>

-----------------------------------------------------------------------------
(* A caller other than the views calls a function of a resource module.     *)
(* The modules read no state, so the calls are taken while no view is       *)
(* mounted and nothing is in flight.                                        *)

Quiescent == page = "none" /\ net = EmptyBag /\ loads = {}

Called(fn, args, res) ==
    [op |-> "call", comp |-> "caller", live |-> TRUE, ok |-> res.kind = "request",
     err |-> IF res.kind = "throw" THEN Some(res.error) ELSE None,
     reqs |-> IF res.kind = "request" THEN << res.req >> ELSE << >>,
     logged |-> FALSE, storage0 |-> storage, nav0 |-> Len(navLog),
     fn |-> fn, args |-> args]

Call(fn, args, res) ==
    /\ Quiescent
    /\ last' = Called(fn, args, res)
    /\ UNCHANGED <<page, view, net, loads, nLoads, storage, navLog>>

\* The params objects a caller can pass: every subset of skip, limit and
\* category, each with a value.
OptSkip == {<< >>} \cup {[skip |-> v] : v \in {0, 20}}
OptLimit == {<< >>} \cup {[limit |-> v] : v \in {5, 100}}
OptCategory == {<< >>} \cup {[category |-> c] : c \in Categories}
ListParamObjects == {a @@ b @@ c : a \in OptSkip, b \in OptLimit, c \in OptCategory}
PageParamObjects == {a @@ b : a \in OptSkip, b \in OptLimit}
Bodies == {[name |-> "x"]}
TopLimitArgs == {None} \cup {Some(n) : n \in 0..MaxLimit}

CallInterventionsApi ==
    \/ \E ps \in {None} \cup ListParamObjects :
           Call("interventionsApi.list", << ps >>, interventionsApi_list(ps))
    \/ \E id \in Ids : Call("interventionsApi.get", << id >>, interventionsApi_get(id))
    \/ \E d \in Bodies : Call("interventionsApi.create", << d >>, interventionsApi_create(d))
    \/ \E id \in Ids, d \in Bodies :
           Call("interventionsApi.update", << id, d >>, interventionsApi_update(id, d))
    \/ \E id \in Ids : Call("interventionsApi.delete", << id >>, interventionsApi_delete(id))
    \/ \E q \in {"fast"} : Call("interventionsApi.search", << q >>, interventionsApi_search(q))
    \/ \E l \in 1..4 : Call("interventionsApi.getByEvidenceLevel", << l >>,
                            interventionsApi_getByEvidenceLevel(l))

CallEvidenceApi ==
    \/ \E id \in Ids, ps \in {None} \cup PageParamObjects :
           Call("evidenceApi.list", << id, ps >>, evidenceApi_list(id, ps))
    \/ \E id \in Ids : Call("evidenceApi.get", << id >>, evidenceApi_get(id))
    \/ \E d \in Bodies : Call("evidenceApi.create", << d >>, evidenceApi_create(d))
    \/ \E q \in 0..1 : Call("evidenceApi.getByQuality", << q >>, evidenceApi_getByQuality(q))
    \/ Call("evidenceApi.getMetaAnalyses", << >>, evidenceApi_getMetaAnalyses)
    \/ Call("evidenceApi.getRandomizedTrials", << >>, evidenceApi_getRandomizedTrials)

CallRecommendationsApi ==
    \/ \E d \in Bodies : Call("recommendationsApi.create", << d >>, recommendationsApi_create(d))
    \/ \E u \in {"u1"}, ps \in {None} \cup PageParamObjects :
           Call("recommendationsApi.getUser", << u, ps >>, recommendationsApi_getUser(u, ps))
    \/ \E id \in Ids : Call("recommendationsApi.get", << id >>, recommendationsApi_get(id))
    \/ \E a \in TopLimitArgs :
           Call("recommendationsApi.getTopInterventions", << a >>,
                recommendationsApi_getTopInterventions(a))

Credentials == [username : Usernames, password : Passwords]

CallAuthApi ==
    \/ \E d \in Credentials : Call("authApi.register", << d >>, authApi_register(d))
    \/ \E d \in Credentials : Call("authApi.login", << d >>, authApi_login(d))
    \/ \E t \in Tokens : Call("authApi.logout", << t >>, authApi_logout(t))
    \/ \E t \in Tokens : Call("authApi.refreshToken", << t >>, authApi_refreshToken(t))
    \/ \E t \in Tokens : Call("authApi.getCurrentUser", << t >>, authApi_getCurrentUser(t))
    \/ \E t \in Tokens, d \in Bodies :
           Call("authApi.updateCurrentUser", << t, d >>, authApi_updateCurrentUser(t, d))
    \/ \E t \in Tokens, d \in Bodies :
           Call("authApi.createHealthProfile", << t, d >>, authApi_createHealthProfile(t, d))
    \/ \E t \in Tokens, d \in Bodies :
           Call("authApi.updateHealthProfile", << t, d >>, authApi_updateHealthProfile(t, d))
    \/ \E t \in Tokens : Call("authApi.getHealthProfile", << t >>, authApi_getHealthProfile(t))

-----------------------------------------------------------------------------
(* Specifications.  The views keep independent state and share only the     *)
(* client: Spec composes Dashboard, InterventionList, LoginPage and         *)
(* RegisterPage with the direct callers; DetailSpec runs InterventionDetail. *)

Next ==
    \/ DashboardMount
    \/ DashboardRefresh
    \/ InterventionListMount
    \/ InterventionListSetFilter
    \/ InterventionListLoad
    \/ LoginMount
    \/ LoginChange
    \/ LoginSubmit
    \/ RegisterMount
    \/ RegisterChange
    \/ RegisterSubmit
    \/ Unmount
    \/ Deliver
    \/ CallInterventionsApi
    \/ CallEvidenceApi
    \/ CallRecommendationsApi
    \/ CallAuthApi

Spec == Init /\ [][Next]_vars

DetailNext ==
    \/ InterventionDetailMount
    \/ InterventionDetailSetId
    \/ Unmount
    \/ Deliver

DetailSpec == Init /\ [][DetailNext]_vars

-----------------------------------------------------------------------------
(* App.tsx: the routes.  '/' mounts Dashboard, '/interventions' mounts       *)
(* InterventionList, and '/interventions/:id' mounts InterventionDetail;    *)
(* LoginPage and RegisterPage have no route.                                *)

\* The interventionId prop of the element of the route '/interventions/:id',
\* for a location whose :id is rid.
AppDetailProp(rid) == 1

\* The user navigates to /interventions/rid.  route: the :id of the location
\* the mounted instance was rendered for.
AppRouteDetail ==
    \E rid \in Ids :
        /\ page' = "InterventionDetail"
        /\ DetailLoadStart([route |-> rid] @@ InterventionDetailInitial(AppDetailProp(rid)),
                           OrphanNet(net), Orphan(loads))

AppNext ==
    \/ DashboardMount
    \/ InterventionListMount
    \/ AppRouteDetail
    \/ Deliver

AppSpec == Init /\ [][AppNext]_vars

-----------------------------------------------------------------------------
(* Properties *)

LoginFailed == last.comp = "LoginPage" /\ last.op = "settle" /\ ~last.ok

\* C1: when a LoginPage submission whose authApi.login call fails has
\* finished, the error message is not empty, localStorage is what it was
\* before the submission and navigate has not been called.
C1_FailedLoginStoresNothing ==
    LoginFailed =>
        /\ last.live => view.error # ""
        /\ storage = last.storage0
        /\ Len(navLog) = last.nav0

C1_Witness ==
    /\ LoginFailed
    /\ page = "LoginPage"
    /\ view.formData.password = "longenough"
    /\ view.error = LoginFallback
    /\ storage = EmptyStorage

\* C2 (as claimed): once a load of the mounted InterventionDetail has settled
\* and loading is false, the view renders the intervention section and the
\* evidence section if both calls resolved, and renders neither, with the
\* failure logged, if either call rejected.
C2_Original ==
    (page = "InterventionDetail" /\ last.op = "settle" /\ last.live /\ ~view.loading) =>
        IF last.ok
        THEN DetailSections(view) = {"intervention", "evidence"}
        ELSE /\ DetailSections(view) \cap {"intervention", "evidence"} = {}
             /\ last.logged

ListCall == last.op = "call" /\ last.fn = "interventionsApi.list"
ListStart == last.op = "start" /\ last.comp = "InterventionList"

\* C3: interventionsApi.list sends one GET /interventions whose query
\* parameters are exactly the ones the caller supplied, values unchanged;
\* InterventionList supplies none when the filter is 'all' and exactly
\* {category: filter} otherwise.
C3_ListForwardsParams ==
    /\ ListCall =>
          /\ Len(last.reqs) = 1
          /\ last.reqs[1].method = "GET"
          /\ last.reqs[1].url = "/interventions"
          /\ last.reqs[1].params = last.args[1]
    /\ ListStart =>
          /\ Len(last.reqs) = 1
          /\ last.reqs[1].method = "GET"
          /\ last.reqs[1].url = "/interventions"
          /\ view.filter = "all" => last.reqs[1].params = None
          /\ view.filter # "all" => last.reqs[1].params = [category |-> view.filter]

C3_Witness ==
    /\ ListCall
    /\ last.args[1] = [skip |-> 20, category |-> "sleep"]
    /\ last.reqs[1].params = [skip |-> 20, category |-> "sleep"]

TopCall == last.op = "call" /\ last.fn = "recommendationsApi.getTopInterventions"

\* C4: getTopInterventions issues one GET to
\* /recommendations/top-interventions with limit=10 when called with no
\* argument and with limit=n when called with n.
C4_TopLimit ==
    TopCall =>
        /\ Len(last.reqs) = 1
        /\ last.reqs[1].method = "GET"
        /\ last.reqs[1].params = None
        /\ last.args[1].none =>
              last.reqs[1].url = "/recommendations/top-interventions?limit=10"
        /\ ~last.args[1].none =>
              last.reqs[1].url =
                  "/recommendations/top-interventions?limit=" \o ToString(last.args[1].v)
        /\ last.args[1] = Some(5) =>
              last.reqs[1].url = "/recommendations/top-interventions?limit=5"

C4_Witness ==
    /\ TopCall
    /\ last.args[1] = None
    /\ last.reqs[1].url = "/recommendations/top-interventions?limit=10"

ServerRejected == ~last.err.none /\ last.err.v.name = "AxiosError"

\* C5 (as claimed): a LoginPage submission that the server did not reject
\* is a successful login: when it has finished, both tokens of the response
\* are in localStorage and navigate('/') has been called.
C5_Original ==
    (last.comp = "LoginPage" /\ last.op = "settle" /\ ~ServerRejected) =>
        /\ ~storage.access_token.none
        /\ ~storage.refresh_token.none
        /\ Len(navLog) > 0
        /\ navLog[Len(navLog)] = "/"

\* C6 (as claimed): every call of a function of a resource module issues one
\* request through the shared client, with baseURL '/api/v1' and timeout
\* 10000 ms.
C6_Original ==
    last.op = "call" =>
        /\ Len(last.reqs) = 1
        /\ last.reqs[1].baseURL = "/api/v1"
        /\ last.reqs[1].timeout = 10000

AuthenticatedFns ==
    {"authApi.getCurrentUser", "authApi.updateCurrentUser", "authApi.createHealthProfile",
     "authApi.updateHealthProfile", "authApi.getHealthProfile"}

\* C7 (as claimed): every authenticated call of authApi sends a request
\* whose Authorization header is 'Bearer ' followed by the token argument of
\* that call.
C7_Original ==
    (last.op = "call" /\ last.fn \in AuthenticatedFns) =>
        /\ Len(last.reqs) = 1
        /\ last.reqs[1].headers = [Authorization |-> "Bearer " \o last.args[1]]

FailedFetch == last.op = "settle" /\ ~last.ok /\ last.live /\ last.comp = page

\* C8 (as claimed): in every view, a rejected request leaves a non-empty
\* message in the state the view renders inline.
C8_Original ==
    FailedFetch =>
        /\ "error" \in DOMAIN view
        /\ view.error # ""

\* C9 (as claimed): after a failed fetch the view shows its empty state:
\* Dashboard an empty top-interventions list, InterventionList an empty list.
C9_Original ==
    FailedFetch =>
        /\ page = "Dashboard" => view.topInterventions = << >>
        /\ page = "InterventionList" => view.interventions = << >>

RetriggerViews == {"Dashboard", "InterventionList", "LoginPage", "RegisterPage"}

\* C10: in Dashboard, InterventionList, LoginPage and RegisterPage, when the
\* request of the mounted instance has settled, resolved or rejected, loading
\* is false, so the trigger button (disabled = loading) is enabled; and
\* loading is true only while a request of the mounted instance is in flight.
C10_LoadingReset ==
    page \in RetriggerViews =>
        /\ (last.op = "settle" /\ last.live /\ last.comp = page) => ~view.loading
        /\ view.loading => \E e \in BagToSet(net) : e.live /\ e.comp = page

C10_Witness ==
    /\ page = "Dashboard"
    /\ last.op = "settle" /\ last.live /\ last.comp = page /\ ~last.ok
    /\ ~view.loading

SettleOps == {"settle", "dropped", "joined"}
ThrownBeforeSend(l) == ~l.err.none /\ l.err.v.name = "ReferenceError"
DistinctUrls(reqs) ==
    \A i, j \in 1..Len(reqs) : i # j => reqs[i].url # reqs[j].url

\* C11: nothing is retried automatically.  A step that puts requests in
\* flight is the start of a handler run by a trigger, and puts in flight
\* exactly the requests that run handed to the client, one per resource
\* function called; a step that settles a request, resolved or rejected,
\* takes it out of flight and sends nothing, and a call that threw before
\* sending leaves the requests in flight as they were.
C11_NoAutomaticRetry ==
    [][ /\ InFlight' > InFlight =>
              /\ last'.op = "start"
              /\ InFlight' = InFlight + Len(last'.reqs)
              /\ DistinctUrls(last'.reqs)
        /\ (last'.op \in SettleOps /\ ~ThrownBeforeSend(last')) =>
              /\ InFlight' = InFlight - 1
              /\ last'.reqs = << >>
        /\ (last'.op \in SettleOps /\ ThrownBeforeSend(last')) => net' = net
      ]_vars

C11_Witness ==
    /\ page = "InterventionList"
    /\ last.op = "settle" /\ last.comp = page /\ last.live /\ ~last.ok
    /\ net = EmptyBag
    /\ ~view.loading

DataViews == {"Dashboard", "InterventionList", "InterventionDetail"}
FetchOnMountViews == {"Dashboard", "InterventionDetail"}

\* The fetched data a data view holds, and what it holds before any fetch.
ViewData(p, v) ==
    CASE p = "Dashboard" -> v.topInterventions
      [] p = "InterventionList" -> v.interventions
      [] p = "InterventionDetail" -> << v.intervention, v.evidence >>
      [] OTHER -> << >>
EmptyData(p) == IF p = "InterventionDetail" THEN << None, << >> >> ELSE << >>

LiveRequests(p, n) == {e \in BagToSet(n) : e.live /\ e.comp = p}

\* C12 (as claimed): when the user navigates to Dashboard, InterventionList
\* or InterventionDetail, the newly mounted component holds no fetched data
\* and has sent a request for its data.
C12_Original ==
    [][ (page' # page /\ page' \in DataViews) =>
            /\ ViewData(page', view') = EmptyData(page')
            /\ last'.op = "start"
            /\ LiveRequests(page', net') # {}
      ]_vars

\* C12 (amended): a newly mounted data view holds no fetched data; Dashboard
\* and InterventionDetail have sent a request for their data and are
\* loading, while InterventionList has sent none and is not loading; and the
\* data a mounted view holds changes to something fetched only by the
\* successful settlement of a request of that same instance.
C12_FreshInstance ==
    [][ /\ (page' # page /\ page' \in DataViews) =>
              /\ ViewData(page', view') = EmptyData(page')
              /\ page' \in FetchOnMountViews =>
                    /\ view'.loading
                    /\ last'.op = "start"
                    /\ LiveRequests(page', net') # {}
              /\ page' = "InterventionList" =>
                    /\ view' = InterventionListInitial
                    /\ last'.reqs = << >>
                    /\ LiveRequests(page', net') = {}
        /\ ( /\ page' \in DataViews
             /\ ViewData(page', view') # EmptyData(page')
             /\ (page' # page \/ ViewData(page', view') # ViewData(page, view)) ) =>
              /\ last'.op = "settle"
              /\ last'.comp = page'
              /\ last'.live
              /\ last'.ok
      ]_vars

C12_Witness ==
    /\ page = "Dashboard"
    /\ last.op = "settle" /\ last.comp = "Dashboard" /\ ~last.live /\ last.ok
    /\ view = DashboardInitial
    /\ LiveRequests(page, net) # {}

C14_Original ==
    (page = "InterventionDetail" /\ last.op = "settle" /\ last.live /\ last.ok
        /\ ~view.loading) =>
        /\ LiveRequests(page, net) = {}
        /\ ~view.intervention.none
        /\ view.intervention.v.id = view.interventionId
        /\ \A i \in 1..Len(view.evidence) :
              view.evidence[i].intervention_id = view.interventionId

RegisterSubmitted ==
    page = "RegisterPage" /\ last.comp = "RegisterPage" /\ last.live
        /\ last.op \in {"invalid", "start", "settle"}
RegisterValid ==
    /\ view.formData.password = view.confirmPassword
    /\ Len(view.formData.password) >= 8

\* C15: when RegisterPage.handleSubmit has run, it has called
\* authApi.register only if password equals confirmPassword and password has
\* at least 8 characters; otherwise it has sent no request, loading is
\* false, navigate has not been called, and the error is the mismatch
\* message when the passwords differ (also when the password is shorter
\* than 8) and the length message when they are equal and shorter than 8.
C15_RegisterValidation ==
    RegisterSubmitted =>
        /\ last.op \in {"start", "settle"} <=> RegisterValid
        /\ last.reqs # << >> => RegisterValid
        /\ ~RegisterValid =>
              /\ last.reqs = << >>
              /\ LiveRequests(page, net) = {}
              /\ ~view.loading
              /\ Len(navLog) = last.nav0
              /\ view.formData.password # view.confirmPassword =>
                    view.error = RegisterMismatch
              /\ view.formData.password = view.confirmPassword =>
                    view.error = RegisterTooShort

C15_Witness ==
    /\ RegisterSubmitted
    /\ view.formData.password = "1234567"
    /\ view.confirmPassword = "12345678"
    /\ view.error = RegisterMismatch
    /\ ~view.loading

\* The number of requests in flight that the mounted instance of p awaits.
LiveCount(p, n) == BagCardinality([e \in LiveRequests(p, n) |-> n[e]])

\* C16: a mounted Dashboard, InterventionList, LoginPage or RegisterPage has
\* at most one request of its own in flight, and loading (which disables the
\* trigger button) is true exactly while that request is in flight.
C16_OneRequestPerInstance ==
    page \in RetriggerViews =>
        /\ LiveCount(page, net) <= 1
        /\ view.loading <=> LiveCount(page, net) = 1

C16_Witness ==
    /\ page = "Dashboard"
    /\ view.topInterventions # << >>
    /\ view.loading
    /\ last.op = "start"
    /\ LiveCount(page, net) = 1
    /\ InFlight > 1

\* C17 (as claimed): when the detail page has been mounted for the location
\* /interventions/:id, the load it started has sent two requests, GET
\* /interventions/:id and GET /evidence/intervention/:id, both for the id of
\* the location.
C17_Original ==
    (page = "InterventionDetail" /\ "route" \in DOMAIN view /\ last.op = "start") =>
        /\ Len(last.reqs) = 2
        /\ last.reqs[1].url = "/interventions/" \o ToString(view.route)
        /\ last.reqs[2].url = "/evidence/intervention/" \o ToString(view.route)

====
